---- MODULE Spec2Model ----
(***************************************************************************)
(* Model of the kitties pallet (pallets/kitties/src/lib3.rs): the three    *)
(* storage items KittyCnt, Kitties and KittiesOwned, the dispatchable      *)
(* create_kitty and the helpers mint, breed_dna and is_kitty_owner.        *)
(*                                                                         *)
(* Rust values are represented as follows.                                 *)
(*   u64            four 16-bit limbs, least significant first (TLC's      *)
(*                  integers are 32 bits wide, u64 keeps its real width)   *)
(*   [u8; 16]       a sequence of 16 bytes; Rust index i is index i + 1    *)
(*   Option<X>      <<>> for None, <<x>> for Some(x)                       *)
(*   Result<X, E>   [tag |-> "Ok", val |-> x] / [tag |-> "Err", val |-> e] *)
(*   T::Hash        the SCALE encoding of the hashed value: T::Hashing is  *)
(*                  collision resistant, so it is modelled as injective    *)
(*                  on the encoding                                        *)
(***************************************************************************)
EXTENDS Integers, Sequences, FiniteSets, TLC

\* ------------------------------------------------------------------ bounds
\* Number of accounts that submit calls.
NumOwners == 2
\* Config::MaxKittyOwned, supplied by the runtime (no value in the pallet).
MaxKittyOwned == 2
\* Highest block number the environment advances to.
MaxBlock == 1
\* Highest state of the runtime's randomness source.
MaxSeed == 1

Accounts == 1..NumOwners

\* ------------------------------------------------------------------ Option / Result
None == <<>>
Some(x) == <<x>>
IsSome(o) == Len(o) = 1
Unwrap(o) == o[1]

Ok(x) == [tag |-> "Ok", val |-> x]
Err(e) == [tag |-> "Err", val |-> e]
IsOk(r) == r.tag = "Ok"
IsErr(r, e) == r.tag = "Err" /\ r.val = e

\* ------------------------------------------------------------------ u64
LimbBase == 65536
NumLimbs == 4
U64Zero == [i \in 1..NumLimbs |-> 0]
U64Max == [i \in 1..NumLimbs |-> LimbBase - 1]

\* The u64 whose value is the natural number n (n below 2^31).
U64Of(n) == [i \in 1..NumLimbs |->
               IF i = 1 THEN n % LimbBase
               ELSE IF i = 2 THEN (n \div LimbBase) % LimbBase
               ELSE 0]

\* Carry into limb i of a + b.
RECURSIVE CarryInto(_, _, _)
CarryInto(a, b, i) ==
  IF i = 1 THEN 0
  ELSE (a[i - 1] + b[i - 1] + CarryInto(a, b, i - 1)) \div LimbBase

\* u64::wrapping_add
wrapping_add(a, b) ==
  [i \in 1..NumLimbs |-> (a[i] + b[i] + CarryInto(a, b, i)) % LimbBase]

\* An addition that wraps around instead of reporting the overflow.
checked_add_wraps(a, b) == Some(wrapping_add(a, b))

\* u64::checked_add: None on overflow.
checked_add(a, b) ==
  IF CarryInto(a, b, NumLimbs + 1) = 1 THEN None ELSE Some(wrapping_add(a, b))

\* ------------------------------------------------------------------ bytes
Byte == 0..255
DnaLen == 16
HashLen == 32

\* Bit k of the byte x.
Bit(x, k) == (x \div (2 ^ k)) % 2

\* u8 operators &, | and !
BitAnd(x, y) ==
    Bit(x, 0) * Bit(y, 0)       + Bit(x, 1) * Bit(y, 1) * 2
  + Bit(x, 2) * Bit(y, 2) * 4   + Bit(x, 3) * Bit(y, 3) * 8
  + Bit(x, 4) * Bit(y, 4) * 16  + Bit(x, 5) * Bit(y, 5) * 32
  + Bit(x, 6) * Bit(y, 6) * 64  + Bit(x, 7) * Bit(y, 7) * 128
\* A complement that is left out.
BitNot_missing(x) == x

BitNot(x) == 255 - x
BitOr(x, y) == x + y - BitAnd(x, y)

\* ------------------------------------------------------------------ Gender, Kitty
Male == "Male"
Female == "Female"
Gender == {Male, Female}

\* Kitty::gender: the parity rule on the first byte.
KittyGender(dna) == IF dna[1] % 2 = 0 THEN Male ELSE Female

\* SCALE encoding of a u32 block number (little endian).
EncodeBlockNumber(n) ==
  <<n % 256, (n \div 256) % 256, (n \div 65536) % 256, (n \div 16777216) % 256>>

\* SCALE encoding of a Kitty: dna, price (None is the byte 0), gender
\* (variant index), owner.
EncodeKitty(kitty) ==
  kitty.dna \o <<0>> \o <<IF kitty.gender = Male THEN 0 ELSE 1>> \o <<kitty.owner>>

\* The encoding without the owner field.
hash_of_no_owner(kitty) ==
  kitty.dna \o <<0>> \o <<IF kitty.gender = Male THEN 0 ELSE 1>>

\* T::Hashing::hash_of(&kitty)
hash_of(kitty) == EncodeKitty(kitty)

\* ------------------------------------------------------------------ randomness
\* The subjects b"gender" and b"dna".
SubjectGender == <<103, 101, 110, 100, 101, 114>>
SubjectDna == <<100, 110, 97>>

\* The states of the runtime's randomness source.
Seeds == 0..MaxSeed

\* T::KittyRandomness::random(subject).0 : a 32-byte hash. The runtime
\* supplies the source and the pallet reads whatever it returns; the hash
\* is a function of the subject and of the source's state. In state 0 it
\* is the subject followed by zeros (the test runtime's source,
\* frame_support_test::TestRandomness); in state sd every byte of that is
\* moved by sd. The second component of the result is dropped by the pallet.
random(subject, sd) ==
  [i \in 1..HashLen |->
     ((IF i <= Len(subject) THEN subject[i] ELSE 0) + sd) % 256]

\* sp_io::hashing::blake2_128 is BLAKE2b (RFC 7693) with a 16-byte digest
\* and no key. A 64-bit word is four 16-bit limbs, least significant first.

\* Bitwise exclusive or of the low n bits of x and y.
RECURSIVE XorBits(_, _, _)
XorBits(x, y, n) ==
  IF n = 0 THEN 0 ELSE ((x + y) % 2) + 2 * XorBits(x \div 2, y \div 2, n - 1)

\* 64-bit exclusive or.
Xor64(a, b) ==
  <<XorBits(a[1], b[1], 16), XorBits(a[2], b[2], 16),
    XorBits(a[3], b[3], 16), XorBits(a[4], b[4], 16)>>

\* The limbs of the sum whose limb-wise partial sums are s1 .. s4: each
\* carry moves into the next limb, the last one is dropped.
Carry64(s1, s2, s3, s4) ==
  <<s1 % LimbBase,
    (s2 + (s1 \div LimbBase)) % LimbBase,
    (s3 + ((s2 + (s1 \div LimbBase)) \div LimbBase)) % LimbBase,
    (s4 + ((s3 + ((s2 + (s1 \div LimbBase)) \div LimbBase)) \div LimbBase))
      % LimbBase>>

\* 64-bit addition modulo 2^64.
Add64(a, b) == Carry64(a[1] + b[1], a[2] + b[2], a[3] + b[3], a[4] + b[4])

\* 64-bit rotations to the right by 32, 16, 24 and 63 bits.
Rotr32(a) == <<a[3], a[4], a[1], a[2]>>
Rotr16(a) == <<a[2], a[3], a[4], a[1]>>
Rotr24(a) ==
  <<(a[2] \div 256) + (a[3] % 256) * 256, (a[3] \div 256) + (a[4] % 256) * 256,
    (a[4] \div 256) + (a[1] % 256) * 256, (a[1] \div 256) + (a[2] % 256) * 256>>
Rotr63(a) ==
  <<((a[1] * 2) % LimbBase) + (a[4] \div 32768),
    ((a[2] * 2) % LimbBase) + (a[1] \div 32768),
    ((a[3] * 2) % LimbBase) + (a[2] \div 32768),
    ((a[4] * 2) % LimbBase) + (a[3] \div 32768)>>

\* The initialization vector and the message schedule of BLAKE2b.
Blake2bIV ==
  <<<<51464, 62396, 58983, 27145>>,
    <<42811, 33994, 44677, 47975>>,
    <<63531, 65172, 62322, 15470>>,
    <<14065, 24349, 62778, 42319>>,
    <<33489, 44518, 21119, 20750>>,
    <<27679, 11070, 26764, 39685>>,
    <<48491, 64321, 55723, 8067>>,
    <<8569, 4990, 52505, 23520>>>>
Blake2bSigma ==
  <<<<0, 1, 2, 3, 4, 5, 6, 7, 8, 9, 10, 11, 12, 13, 14, 15>>,
    <<14, 10, 4, 8, 9, 15, 13, 6, 1, 12, 0, 2, 11, 7, 5, 3>>,
    <<11, 8, 12, 0, 5, 2, 15, 13, 10, 14, 3, 6, 7, 1, 9, 4>>,
    <<7, 9, 3, 1, 13, 12, 11, 14, 2, 6, 5, 10, 4, 0, 15, 8>>,
    <<9, 0, 5, 7, 2, 4, 10, 15, 14, 1, 11, 12, 6, 8, 3, 13>>,
    <<2, 12, 6, 10, 0, 11, 8, 3, 4, 13, 7, 5, 15, 14, 1, 9>>,
    <<12, 5, 1, 15, 14, 13, 4, 10, 0, 7, 6, 3, 9, 2, 8, 11>>,
    <<13, 11, 7, 14, 12, 1, 3, 9, 5, 0, 15, 4, 8, 6, 2, 10>>,
    <<6, 15, 14, 9, 11, 3, 0, 8, 12, 2, 13, 7, 1, 4, 10, 5>>,
    <<10, 2, 8, 4, 7, 6, 1, 5, 15, 11, 9, 14, 3, 12, 13, 0>>>>

\* The steps of the mixing function G on the quadruple q = <<a, b, c, d>>:
\* a := a + b + x;  d := (d xor a) >>> 32 or 16;  c := c + d;
\* b := (b xor c) >>> 24 or 63.
Blake2bStepA(q, x) == <<Add64(Add64(q[1], q[2]), x), q[2], q[3], q[4]>>
Blake2bStepD32(q) == <<q[1], q[2], q[3], Rotr32(Xor64(q[4], q[1]))>>
Blake2bStepD16(q) == <<q[1], q[2], q[3], Rotr16(Xor64(q[4], q[1]))>>
Blake2bStepC(q) == <<q[1], q[2], Add64(q[3], q[4]), q[4]>>
Blake2bStepB24(q) == <<q[1], Rotr24(Xor64(q[2], q[3])), q[3], q[4]>>
Blake2bStepB63(q) == <<q[1], Rotr63(Xor64(q[2], q[3])), q[3], q[4]>>

\* G on a quadruple with the message words x and y.
Blake2bMix(q, x, y) ==
  Blake2bStepB63(Blake2bStepC(Blake2bStepD16(Blake2bStepA(
    Blake2bStepB24(Blake2bStepC(Blake2bStepD32(Blake2bStepA(q, x)))), y))))

\* The working vector v with the words a, b, c, d replaced by q.
Blake2bPut(v, a, b, c, d, q) ==
  [v EXCEPT ![a] = q[1], ![b] = q[2], ![c] = q[3], ![d] = q[4]]

\* The mixing function G on the words a, b, c, d of v with message words x, y.
Blake2bG(v, a, b, c, d, x, y) ==
  Blake2bPut(v, a, b, c, d, Blake2bMix(<<v[a], v[b], v[c], v[d]>>, x, y))

\* The words G mixes in the eight steps of a round: the four columns, then
\* the four diagonals of the working vector.
Blake2bLanes ==
  <<<<1, 5, 9, 13>>, <<2, 6, 10, 14>>, <<3, 7, 11, 15>>, <<4, 8, 12, 16>>,
    <<1, 6, 11, 16>>, <<2, 7, 12, 13>>, <<3, 8, 9, 14>>, <<4, 5, 10, 15>>>>

\* G on lane l of v with the message words the schedule s gives step i.
Blake2bStep(v, m, s, l, i) ==
  Blake2bG(v, l[1], l[2], l[3], l[4], m[s[2 * i - 1] + 1], m[s[2 * i] + 1])

\* Steps i .. 8 of one round on the 16-word working vector v.
RECURSIVE Blake2bRound(_, _, _, _)
Blake2bRound(v, m, s, i) ==
  IF Len(v) = 16 /\ i <= 8
  THEN Blake2bRound(Blake2bStep(v, m, s, Blake2bLanes[i], i), m, s, i + 1)
  ELSE v

\* Rounds r .. 11 of the twelve rounds on the 16-word working vector v.
RECURSIVE Blake2bRounds(_, _, _)
Blake2bRounds(v, m, r) ==
  IF Len(v) = 16 /\ r < 12
  THEN Blake2bRounds(Blake2bRound(v, m, Blake2bSigma[(r % 10) + 1], 1), m, r + 1)
  ELSE v

\* Byte k of the input, zero beyond its end (the padding of the last block).
ByteAt(bytes, k) == IF k <= Len(bytes) THEN bytes[k] ELSE 0

\* Message word w (0..15) of the 128-byte block blk (0, 1, ...).
Blake2bWord(bytes, blk, w) ==
  LET k == 128 * blk + 8 * w
  IN  <<ByteAt(bytes, k + 1) + 256 * ByteAt(bytes, k + 2),
        ByteAt(bytes, k + 3) + 256 * ByteAt(bytes, k + 4),
        ByteAt(bytes, k + 5) + 256 * ByteAt(bytes, k + 6),
        ByteAt(bytes, k + 7) + 256 * ByteAt(bytes, k + 8)>>

\* The 16 message words of the 128-byte block blk.
Blake2bBlockWords(bytes, blk) == [w \in 1..16 |-> Blake2bWord(bytes, blk, w - 1)]

\* The working vector at the start of a compression: the chaining value h,
\* then the IV with the byte count t mixed into word 12 and, for the final
\* block, word 14 inverted.
Blake2bWorkVector(h, t, final) ==
  <<h[1], h[2], h[3], h[4], h[5], h[6], h[7], h[8],
    Blake2bIV[1], Blake2bIV[2], Blake2bIV[3], Blake2bIV[4],
    Xor64(Blake2bIV[5], <<t % LimbBase, t \div LimbBase, 0, 0>>),
    Blake2bIV[6],
    IF final
    THEN Xor64(Blake2bIV[7],
               <<LimbBase - 1, LimbBase - 1, LimbBase - 1, LimbBase - 1>>)
    ELSE Blake2bIV[7],
    Blake2bIV[8]>>

\* The new chaining value: h xor both halves of the working vector v.
Blake2bFold(h, v) ==
  <<Xor64(Xor64(h[1], v[1]), v[9]), Xor64(Xor64(h[2], v[2]), v[10]),
    Xor64(Xor64(h[3], v[3]), v[11]), Xor64(Xor64(h[4], v[4]), v[12]),
    Xor64(Xor64(h[5], v[5]), v[13]), Xor64(Xor64(h[6], v[6]), v[14]),
    Xor64(Xor64(h[7], v[7]), v[15]), Xor64(Xor64(h[8], v[8]), v[16])>>

\* The compression function F: chaining value h, block blk of the input,
\* t bytes fed so far, final block or not.
Blake2bCompress(h, bytes, blk, t, final) ==
  Blake2bFold(h, Blake2bRounds(Blake2bWorkVector(h, t, final),
                               Blake2bBlockWords(bytes, blk), 0))

\* The number of 128-byte blocks of an input of n bytes (the empty input is
\* one block).
Blake2bNumBlocks(n) == IF n = 0 THEN 1 ELSE (n + 127) \div 128

\* The chaining value after the blocks blk, blk + 1, ... of the input; the
\* last block is compressed with the whole length and the final flag.
RECURSIVE Blake2bBlocks(_, _, _, _)
Blake2bBlocks(h, bytes, blk, n) ==
  IF Len(h) = 8 /\ blk < n
  THEN Blake2bBlocks(
         Blake2bCompress(h, bytes, blk,
                         IF blk + 1 = n THEN Len(bytes) ELSE 128 * (blk + 1),
                         blk + 1 = n),
         bytes, blk + 1, n)
  ELSE h

\* The initial chaining value: the IV with the parameter block (digest
\* length 16, no key, fanout 1, depth 1) mixed into its first word.
Blake2bInit ==
  [Blake2bIV EXCEPT ![1] = Xor64(Blake2bIV[1], <<DnaLen, 257, 0, 0>>)]

\* The first 16 bytes of the chaining value h, little endian.
Blake2bDigest(h) ==
  <<h[1][1] % 256, h[1][1] \div 256, h[1][2] % 256, h[1][2] \div 256,
    h[1][3] % 256, h[1][3] \div 256, h[1][4] % 256, h[1][4] \div 256,
    h[2][1] % 256, h[2][1] \div 256, h[2][2] % 256, h[2][2] \div 256,
    h[2][3] % 256, h[2][3] \div 256, h[2][4] % 256, h[2][4] \div 256>>

\* sp_io::hashing::blake2_128 : the 16-byte BLAKE2b digest of the bytes.
blake2_128(bytes) ==
  Blake2bDigest(Blake2bBlocks(Blake2bInit, bytes, 0, Blake2bNumBlocks(Len(bytes))))

\* The environment a call runs in: the state of the randomness source and
\* frame_system's block number.
EnvOf(sd, bn) == [seed |-> sd, block_number |-> bn]

\* The SCALE encoding of gen_dna's payload (random("dna").0, block_number).
DnaPayload(env) ==
  random(SubjectDna, env.seed) \o EncodeBlockNumber(env.block_number)

\* The digest of the payload of every environment within the bounds.
DnaDigests ==
  [s \in Seeds |-> [b \in 0..MaxBlock |-> blake2_128(DnaPayload(EnvOf(s, b)))]]

\* Pallet::gen_dna
gen_dna(env) ==
  IF env.seed \in Seeds /\ env.block_number \in 0..MaxBlock
  THEN DnaDigests[env.seed][env.block_number]
  ELSE blake2_128(DnaPayload(env))

\* A gender that is the parity of the generated DNA's first byte.
gen_gender_dna_parity(env) == KittyGender(gen_dna(env))

\* Pallet::gen_gender
gen_gender(env) ==
  IF random(SubjectGender, env.seed)[1] % 2 = 0 THEN Male ELSE Female

\* ------------------------------------------------------------------ storage
VARIABLES
  KittyCnt,      \* StorageValue<u64, ValueQuery>
  Kitties,       \* StorageMap<T::Hash, Kitty<T>>
  KittiesOwned,  \* StorageMap<T::AccountId, BoundedVec<T::Hash, MaxKittyOwned>, ValueQuery>
  block_number,  \* frame_system::Pallet::block_number()
  seed,          \* the state of the runtime's randomness source
  last           \* the last call: its operation, arguments, result and the storage before it

vars == <<KittyCnt, Kitties, KittiesOwned, block_number, seed, last>>

\* The pallet's storage as one value.
Storage == [cnt |-> KittyCnt, kitties |-> Kitties, owned |-> KittiesOwned]

\* A push that ignores the bound.
try_push_unbounded(vec, x) == Ok(Append(vec, x))

\* A bounded push that puts the new element first.
try_push_front(vec, x) ==
  IF Len(vec) < MaxKittyOwned THEN Ok(<<x>> \o vec) ELSE Err(<<>>)

\* BoundedVec::try_push
try_push(vec, x) ==
  IF Len(vec) < MaxKittyOwned THEN Ok(Append(vec, x)) ELSE Err(<<>>)

\* An insert that replaces the whole map by the one new entry.
insert_replacing(map, key, value) == [k \in {key} |-> value]

\* StorageMap::insert: adds the key or overwrites its value.
insert(map, key, value) ==
  [k \in DOMAIN map \cup {key} |-> IF k = key THEN value ELSE map[k]]

\* StorageMap::get (the getter Self::kitties)
kitties(map, key) == IF key \in DOMAIN map THEN Some(map[key]) ELSE None

\* The Kitty that mint builds from its arguments.
NewKitty(owner, dna, gender, env) ==
  [dna |-> IF IsSome(dna) THEN Unwrap(dna) ELSE gen_dna(env),
   price |-> None,
   gender |-> IF IsSome(gender) THEN Unwrap(gender) ELSE gen_gender(env),
   owner |-> owner]

\* mint with the counter written before the ownership index is tried.
mint_counter_first(st, owner, dna, gender, env) ==
  LET kitty == NewKitty(owner, dna, gender, env)
      kitty_id == hash_of(kitty)
      new_cnt == checked_add(st.cnt, U64Of(1))
  IN  IF ~IsSome(new_cnt) THEN [res |-> Err("KittyCntOverflow"), st |-> st]
      ELSE LET bumped == [st EXCEPT !.cnt = Unwrap(new_cnt)]
               pushed == try_push(st.owned[owner], kitty_id)
           IN  IF ~IsOk(pushed)
               THEN [res |-> Err("ExceedMaxKittyOwned"), st |-> bumped]
               ELSE [res |-> Ok(kitty_id),
                     st |-> [cnt |-> Unwrap(new_cnt),
                             kitties |-> insert(st.kitties, kitty_id, kitty),
                             owned |-> [st.owned EXCEPT ![owner] = pushed.val]]]

\* mint with the asset inserted before the ownership index is tried.
mint_insert_first(st, owner, dna, gender, env) ==
  LET kitty == NewKitty(owner, dna, gender, env)
      kitty_id == hash_of(kitty)
      new_cnt == checked_add(st.cnt, U64Of(1))
  IN  IF ~IsSome(new_cnt) THEN [res |-> Err("KittyCntOverflow"), st |-> st]
      ELSE LET stored == [st EXCEPT !.kitties = insert(st.kitties, kitty_id, kitty)]
               pushed == try_push(st.owned[owner], kitty_id)
           IN  IF ~IsOk(pushed)
               THEN [res |-> Err("ExceedMaxKittyOwned"), st |-> stored]
               ELSE [res |-> Ok(kitty_id),
                     st |-> [cnt |-> Unwrap(new_cnt),
                             kitties |-> stored.kitties,
                             owned |-> [st.owned EXCEPT ![owner] = pushed.val]]]

\* mint with the owner's capacity tried before the counter.
mint_capacity_first(st, owner, dna, gender, env) ==
  LET kitty == NewKitty(owner, dna, gender, env)
      kitty_id == hash_of(kitty)
      new_cnt == checked_add(st.cnt, U64Of(1))
      pushed == try_push(st.owned[owner], kitty_id)
  IN  IF ~IsOk(pushed) THEN [res |-> Err("ExceedMaxKittyOwned"), st |-> st]
      ELSE IF ~IsSome(new_cnt) THEN [res |-> Err("KittyCntOverflow"), st |-> st]
      ELSE [res |-> Ok(kitty_id),
            st |-> [cnt |-> Unwrap(new_cnt),
                    kitties |-> insert(st.kitties, kitty_id, kitty),
                    owned |-> [st.owned EXCEPT ![owner] = pushed.val]]]

\* Pallet::mint on storage st: its result and the storage after it.
\* checked_add and try_mutate fail before anything is written; insert and
\* put cannot fail.
mint(st, owner, dna, gender, env) ==
  LET kitty == NewKitty(owner, dna, gender, env)
      kitty_id == hash_of(kitty)
      new_cnt == checked_add(st.cnt, U64Of(1))
  IN  IF ~IsSome(new_cnt) THEN [res |-> Err("KittyCntOverflow"), st |-> st]
      ELSE LET pushed == try_push(st.owned[owner], kitty_id)
           IN  IF ~IsOk(pushed)
               THEN [res |-> Err("ExceedMaxKittyOwned"), st |-> st]
               ELSE [res |-> Ok(kitty_id),
                     st |-> [cnt |-> Unwrap(new_cnt),
                             kitties |-> insert(st.kitties, kitty_id, kitty),
                             owned |-> [st.owned EXCEPT ![owner] = pushed.val]]]

\* breed_dna that takes a default Kitty (all-zero DNA) for an absent second
\* parent instead of failing.
breed_dna_default_second(map, kid1, kid2, env) ==
  IF ~IsSome(kitties(map, kid1)) THEN Err("KittyNotExist")
  ELSE LET dna1 == Unwrap(kitties(map, kid1)).dna
           dna2 == IF IsSome(kitties(map, kid2))
                   THEN Unwrap(kitties(map, kid2)).dna
                   ELSE [i \in 1..DnaLen |-> 0]
           m == gen_dna(env)
       IN  Ok([i \in 1..DnaLen |->
                 BitOr(BitAnd(m[i], dna1[i]), BitAnd(BitNot(m[i]), dna2[i]))])

\* breed_dna with the two parents' roles exchanged in the combination.
breed_dna_swapped(map, kid1, kid2, env) ==
  IF ~IsSome(kitties(map, kid1)) THEN Err("KittyNotExist")
  ELSE IF ~IsSome(kitties(map, kid2)) THEN Err("KittyNotExist")
  ELSE LET dna1 == Unwrap(kitties(map, kid1)).dna
           dna2 == Unwrap(kitties(map, kid2)).dna
           m == gen_dna(env)
       IN  Ok([i \in 1..DnaLen |->
                 BitOr(BitAnd(m[i], dna2[i]), BitAnd(BitNot(m[i]), dna1[i]))])

\* Pallet::breed_dna
breed_dna(map, kid1, kid2, env) ==
  IF ~IsSome(kitties(map, kid1)) THEN Err("KittyNotExist")
  ELSE IF ~IsSome(kitties(map, kid2)) THEN Err("KittyNotExist")
  ELSE LET dna1 == Unwrap(kitties(map, kid1)).dna
           dna2 == Unwrap(kitties(map, kid2)).dna
           m == gen_dna(env)
       IN  Ok([i \in 1..DnaLen |->
                 BitOr(BitAnd(m[i], dna1[i]), BitAnd(BitNot(m[i]), dna2[i]))])

\* is_kitty_owner that answers Ok(false) for an absent kitty.
is_kitty_owner_absent_false(map, kitty_id, acct) ==
  IF IsSome(kitties(map, kitty_id))
  THEN Ok(Unwrap(kitties(map, kitty_id)).owner = acct)
  ELSE Ok(FALSE)

\* Pallet::is_kitty_owner
is_kitty_owner(map, kitty_id, acct) ==
  IF IsSome(kitties(map, kitty_id))
  THEN Ok(Unwrap(kitties(map, kitty_id)).owner = acct)
  ELSE Err("KittyNotExist")

\* ------------------------------------------------------------------ inputs
\* The DNA value callers supply (its first byte is even).
DnaEven == [i \in 1..DnaLen |-> (16 * i + 90) % 256]
ExplicitDna == {DnaEven}

\* The DNA arguments of direct calls of mint (the call without DNA is
\* create_kitty's) and the gender arguments.
DnaArgs == {Some(d) : d \in ExplicitDna}
GenderArgs == {None} \cup {Some(g) : g \in Gender}

\* Origins of a dispatchable: signed by an account, or not signed.
Origins == {Some(a) : a \in Accounts} \cup {None}

\* An identifier under which nothing is ever stored.
MissingId == <<>>

\* Identifiers callers pass to breed_dna and is_kitty_owner: the missing one,
\* the identifier of account 1's kitty with the supplied DNA, and the
\* identifier of the kitty that account 2 creates in block 0 when the
\* randomness source is in state 0.
KittyIds ==
  {MissingId,
   hash_of(NewKitty(1, Some(DnaEven), Some(Male), EnvOf(0, 0))),
   hash_of(NewKitty(NumOwners, None, None, EnvOf(0, 0)))}

NoMint == None
EmptyMap == [k \in {} |-> 0]

\* ------------------------------------------------------------------ actions
\* The environment of the current call.
Env == EnvOf(seed, block_number)

\* The state before any call, from the given counter value.
InitFrom(cnt) ==
  /\ KittyCnt = cnt
  /\ Kitties = EmptyMap
  /\ KittiesOwned = [a \in Accounts |-> <<>>]
  /\ block_number = 0
  /\ seed \in Seeds
  /\ last = [op |-> "init", args |-> <<>>, res |-> Ok(<<>>), minted |-> NoMint,
             event |-> None, pre |-> [cnt |-> cnt, kitties |-> EmptyMap,
                                       owned |-> [a \in Accounts |-> <<>>]]]

\* Genesis: the counter is 0 (ValueQuery default) and both maps are empty.
Init == InitFrom(U64Zero)

\* The record of a call: operation, arguments, result, the mint it made (if
\* any), the event it deposited (if any) and the storage before it.
Call(op, args, res, minted, event) ==
  [op |-> op, args |-> args, res |-> res, minted |-> minted,
   event |-> event, pre |-> Storage]

\* The arguments and the result of a call of mint.
Minted(owner, dna, gender, res) ==
  Some([owner |-> owner, dna |-> dna, gender |-> gender, res |-> res])

\* The dispatchable create_kitty(origin).
CreateKitty ==
  \E origin \in Origins :
    LET signed == IsSome(origin)
        sender == Unwrap(origin)
        m == mint(Storage, sender, None, None, Env)
        st == IF signed THEN m.st ELSE Storage
    IN  /\ KittyCnt' = st.cnt
        /\ Kitties' = st.kitties
        /\ KittiesOwned' = st.owned
        /\ last' = IF ~signed
                   THEN Call("create_kitty", <<origin>>, Err("BadOrigin"), NoMint, None)
                   ELSE IF IsOk(m.res)
                   THEN Call("create_kitty", <<origin>>, Ok(<<>>),
                             Minted(sender, None, None, m.res),
                             Some(<<"Created", sender, m.res.val>>))
                   ELSE Call("create_kitty", <<origin>>, m.res,
                             Minted(sender, None, None, m.res), None)
        /\ UNCHANGED <<block_number, seed>>

\* A direct call of the helper mint(owner, dna, gender).
Mint ==
  \E owner \in Accounts, dna \in DnaArgs, gender \in GenderArgs :
    LET m == mint(Storage, owner, dna, gender, Env)
    IN  /\ KittyCnt' = m.st.cnt
        /\ Kitties' = m.st.kitties
        /\ KittiesOwned' = m.st.owned
        /\ last' = Call("mint", <<owner, dna, gender>>, m.res,
                        Minted(owner, dna, gender, m.res), None)
        /\ UNCHANGED <<block_number, seed>>

\* A call of the helper breed_dna(kid1, kid2).
BreedDna ==
  \E kid1 \in KittyIds, kid2 \in KittyIds :
    /\ last' = Call("breed_dna", <<kid1, kid2>>,
                    breed_dna(Kitties, kid1, kid2, Env), NoMint, None)
    /\ UNCHANGED <<KittyCnt, Kitties, KittiesOwned, block_number, seed>>

\* A call of the helper is_kitty_owner(kitty_id, acct).
IsKittyOwner ==
  \E kitty_id \in KittyIds, acct \in Accounts :
    /\ last' = Call("is_kitty_owner", <<kitty_id, acct>>,
                    is_kitty_owner(Kitties, kitty_id, acct), NoMint, None)
    /\ UNCHANGED <<KittyCnt, Kitties, KittiesOwned, block_number, seed>>

\* The chain moves to the next block: the block number grows and the
\* randomness source moves to any of its states.
NextBlock ==
  /\ block_number < MaxBlock
  /\ block_number' = block_number + 1
  /\ seed' \in Seeds
  /\ last' = Call("next_block", <<>>, Ok(<<>>), NoMint, None)
  /\ UNCHANGED <<KittyCnt, Kitties, KittiesOwned>>

Next == CreateKitty \/ Mint \/ BreedDna \/ IsKittyOwner \/ NextBlock

Spec == Init /\ [][Next]_vars

\* A counter value MaxKittyOwned + 1 below u64::MAX.
NearMax == [U64Max EXCEPT ![1] = LimbBase - 1 - (MaxKittyOwned + 1)]

\* The pallet with the counter close to u64::MAX: the accounts of the model
\* own nothing yet, the kitties counted so far belong to other accounts.
InitNearMax == InitFrom(NearMax)

SpecNearMax == InitNearMax /\ [][Next]_vars

\* ------------------------------------------------------------------ properties
\* The last call made a call of mint (directly or through create_kitty).
LastMinted == IsSome(last.minted)
\* That call of mint: its owner, dna and gender arguments and its result.
M == Unwrap(last.minted)
MintOk == LastMinted /\ IsOk(M.res)
MintFailed(e) == LastMinted /\ IsErr(M.res, e)
\* The kitty that call built and the identifier it derived (mint leaves the
\* block number unchanged).
MintedKitty == NewKitty(M.owner, M.dna, M.gender, Env)
MintedId == hash_of(MintedKitty)
\* The identifiers of an owner's sequence, as a set.
Range(seq) == {seq[i] : i \in 1..Len(seq)}

\* C1: in every reachable state the counter KittyCnt equals the number of
\* assets stored in Kitties.
C1_CounterEqualsStoreSize == KittyCnt = U64Of(Cardinality(DOMAIN Kitties))

\* C2: after a mint that returned Ok(id) the counter is the counter before
\* plus 1, id was absent from the store before the call, and the store
\* holds under id an asset with the supplied owner and price None.
C2_MintOkEffects ==
  MintOk =>
    /\ Some(KittyCnt) = checked_add(last.pre.cnt, U64Of(1))
    /\ M.res.val \notin DOMAIN last.pre.kitties
    /\ M.res.val \in DOMAIN Kitties
    /\ Kitties[M.res.val].owner = M.owner
    /\ Kitties[M.res.val].price = None

\* C3: every owner's KittiesOwned sequence has at most MaxKittyOwned
\* identifiers.
C3_OwnedWithinCapacity ==
  \A a \in Accounts : Len(KittiesOwned[a]) <= MaxKittyOwned

\* A mint for an owner whose sequence is full was attempted and refused.
C3_Witness ==
  /\ MintFailed("ExceedMaxKittyOwned")
  /\ Len(KittiesOwned[M.owner]) = MaxKittyOwned

\* C4: a mint for an owner whose sequence already holds MaxKittyOwned
\* identifiers, with the counter below the maximum, returns
\* ExceedMaxKittyOwned and leaves the counter, the store and every owner's
\* sequence as they were.
C4_FullOwnerMintRejected ==
  (/\ LastMinted
   /\ Len(last.pre.owned[M.owner]) = MaxKittyOwned
   /\ last.pre.cnt # U64Max)
  => /\ M.res = Err("ExceedMaxKittyOwned")
     /\ Storage = last.pre

\* A mint was made for a full owner while another owner holds assets too.
C4_Witness ==
  /\ LastMinted
  /\ Len(last.pre.owned[M.owner]) = MaxKittyOwned
  /\ last.pre.cnt # U64Max
  /\ \E a \in Accounts : a # M.owner /\ Len(KittiesOwned[a]) > 0

\* C5: a mint attempted with the counter at u64::MAX fails with
\* KittyCntOverflow; the counter does not wrap and the store and every
\* owner's sequence are unchanged.
C5_OverflowMintRejected ==
  (LastMinted /\ last.pre.cnt = U64Max)
  => /\ M.res = Err("KittyCntOverflow")
     /\ KittyCnt = U64Max
     /\ Storage = last.pre

\* A mint was attempted with the counter at u64::MAX, for an owner who still
\* has room.
C5_Witness ==
  /\ LastMinted
  /\ last.pre.cnt = U64Max
  /\ Len(last.pre.owned[M.owner]) < MaxKittyOwned

\* C6: every identifier in an owner's KittiesOwned sequence is a key of the
\* store, and the asset stored under it has that owner as its owner field.
C6_OwnedAreStoredWithOwner ==
  \A a \in Accounts : \A id \in Range(KittiesOwned[a]) :
    id \in DOMAIN Kitties /\ Kitties[id].owner = a

\* Every account owns an asset and the last call was a successful mint.
C6_Witness ==
  /\ MintOk
  /\ \A a \in Accounts : Len(KittiesOwned[a]) > 0

\* C7: no identifier occurs at two positions of the same owner's sequence.
C7_OwnedDuplicateFree ==
  \A a \in Accounts : \A i, j \in 1..Len(KittiesOwned[a]) :
    KittiesOwned[a][i] = KittiesOwned[a][j] => i = j

\* C8: a mint whose derived identifier is already in the store aborts with
\* a duplicate-identifier error and changes neither the store, nor the
\* counter, nor the owner's sequence.
C8_DuplicateMintAborts ==
  (LastMinted /\ MintedId \in DOMAIN last.pre.kitties)
  => /\ M.res = Err("DuplicateIdentifier")
     /\ Storage = last.pre

\* C9: every stored asset's gender is the parity of the first byte of its
\* DNA (Male when even, Female when odd).
C9_GenderIsDnaParity ==
  \A id \in DOMAIN Kitties : Kitties[id].gender = KittyGender(Kitties[id].dna)

\* The first byte of the randomness for the subject "gender" in the
\* current environment.
GenderByte == random(SubjectGender, seed)[1]

\* C9 (amended): every stored asset's gender is Male or Female, and the
\* asset a successful mint stores has the gender the mint resolved: the
\* supplied gender, or else Male when the first byte of the randomness for
\* the subject "gender" is even and Female when it is odd.
C9_GenderIsResolvedGender ==
  /\ \A id \in DOMAIN Kitties : Kitties[id].gender \in Gender
  /\ (MintOk /\ IsSome(M.gender)) =>
       Kitties[M.res.val].gender = Unwrap(M.gender)
  /\ (MintOk /\ ~IsSome(M.gender)) =>
       /\ Kitties[M.res.val].gender = Male <=> GenderByte % 2 = 0
       /\ Kitties[M.res.val].gender = Female <=> GenderByte % 2 = 1

\* A mint with generated DNA and generated gender stored a Female asset (the
\* randomness byte is odd) whose DNA's first byte is even, while the store
\* also holds a Male asset generated in another environment (an even
\* randomness byte) whose DNA's first byte is odd.
C9_Witness ==
  /\ MintOk
  /\ ~IsSome(M.gender)
  /\ ~IsSome(M.dna)
  /\ GenderByte % 2 = 1
  /\ Kitties[M.res.val].gender = Female
  /\ Kitties[M.res.val].dna[1] % 2 = 0
  /\ \E o \in Accounts, s \in Seeds, b \in 0..MaxBlock :
       LET k == NewKitty(o, None, None, EnvOf(s, b))
       IN  /\ hash_of(k) \in DOMAIN Kitties
           /\ random(SubjectGender, s)[1] % 2 = 0
           /\ k.gender = Male
           /\ k.dna[1] % 2 = 1

\* C10: a mint is all or nothing. A mint that fails leaves the counter, the
\* store and every sequence unchanged; the counter changes only in a
\* successful mint, after which the minted asset is stored under its
\* identifier and indexed under its owner; and no owner's sequence ever
\* holds an identifier without an asset stored under it.
C10_MintAllOrNothing ==
  /\ (LastMinted /\ ~IsOk(M.res)) => Storage = last.pre
  /\ Storage # last.pre =>
       /\ MintOk
       /\ Some(KittyCnt) = checked_add(last.pre.cnt, U64Of(1))
       /\ M.res.val \in DOMAIN Kitties
       /\ Kitties[M.res.val] = MintedKitty
       /\ KittiesOwned[M.owner] = Append(last.pre.owned[M.owner], M.res.val)
  /\ \A a \in Accounts : Range(KittiesOwned[a]) \subseteq DOMAIN Kitties

\* A mint failed on the counter after earlier mints succeeded for every
\* account.
C10_Witness ==
  /\ MintFailed("KittyCntOverflow")
  /\ \A a \in Accounts : Len(KittiesOwned[a]) > 0
  /\ Storage = last.pre

\* The last call was a call of the named helper.
LastOp(op) == last.op = op
\* The mask a call of breed_dna in the current block draws.
BreedMask == gen_dna(Env)

\* C11: is_kitty_owner(id, account) returns Err(KittyNotExist) exactly when
\* id is not in the store, otherwise Ok(true) when account is the stored
\* owner and Ok(false) for any other account; it changes no state.
C11_IsKittyOwnerResult ==
  LastOp("is_kitty_owner") =>
    LET id == last.args[1]
        acct == last.args[2]
    IN  /\ (last.res = Err("KittyNotExist")) <=> (id \notin DOMAIN Kitties)
        /\ id \in DOMAIN Kitties =>
             /\ Kitties[id].owner = acct => last.res = Ok(TRUE)
             /\ Kitties[id].owner # acct => last.res = Ok(FALSE)
        /\ Storage = last.pre

\* is_kitty_owner was asked about a stored kitty and an account that is not
\* its owner.
C11_Witness ==
  /\ LastOp("is_kitty_owner")
  /\ last.args[1] \in DOMAIN Kitties
  /\ Kitties[last.args[1]].owner # last.args[2]
  /\ last.res = Ok(FALSE)

\* C12: breed_dna with a parent identifier that is absent from the store
\* (first, second or both) fails with KittyNotExist; it returns Ok only
\* when both parents exist; the counter, the store and every owner's
\* sequence are unchanged.
C12_BreedMissingParent ==
  LastOp("breed_dna") =>
    LET kid1 == last.args[1]
        kid2 == last.args[2]
    IN  /\ (kid1 \notin DOMAIN Kitties \/ kid2 \notin DOMAIN Kitties)
             => last.res = Err("KittyNotExist")
        /\ IsOk(last.res) => (kid1 \in DOMAIN Kitties /\ kid2 \in DOMAIN Kitties)
        /\ Storage = last.pre

\* breed_dna was called with a stored first parent and an absent second one.
C12_Witness ==
  /\ LastOp("breed_dna")
  /\ last.args[1] \in DOMAIN Kitties
  /\ last.args[2] \notin DOMAIN Kitties
  /\ last.res = Err("KittyNotExist")

\* C13: when both parents exist, every bit of every byte of the child DNA
\* is parent 1's bit where the generated mask's bit is 1 and parent 2's bit
\* where the mask's bit is 0.
C13_BreedBitwiseInheritance ==
  (LastOp("breed_dna") /\ IsOk(last.res)) =>
    LET dna1 == Kitties[last.args[1]].dna
        dna2 == Kitties[last.args[2]].dna
        child == last.res.val
    IN  /\ DOMAIN child = 1..DnaLen
        /\ \A i \in 1..DnaLen : \A k \in 0..7 :
             Bit(child[i], k) =
               IF Bit(BreedMask[i], k) = 1 THEN Bit(dna1[i], k) ELSE Bit(dna2[i], k)

\* breed_dna combined two stored kitties with different DNA, and the child
\* took bits from each parent that the other does not have.
C13_Witness ==
  /\ LastOp("breed_dna")
  /\ IsOk(last.res)
  /\ last.res.val # Kitties[last.args[1]].dna
  /\ last.res.val # Kitties[last.args[2]].dna

\* a <= b for two u64 values.
U64Le(a, b) ==
  \/ a = b
  \/ \E i \in 1..NumLimbs :
       a[i] < b[i] /\ \A j \in (i + 1)..NumLimbs : a[j] = b[j]

\* C14: in every step the counter does not decrease, and every asset of the
\* store stays in the store with the same DNA.
C14_CounterAndAssetsPersist ==
  [][/\ U64Le(KittyCnt, KittyCnt')
     /\ \A id \in DOMAIN Kitties :
          id \in DOMAIN Kitties' /\ Kitties'[id].dna = Kitties[id].dna]_vars

\* A successful mint wrote under an identifier that was already stored,
\* while another asset was in the store.
C14_Witness ==
  /\ MintOk
  /\ M.res.val \in DOMAIN last.pre.kitties
  /\ Cardinality(DOMAIN Kitties) >= 2

\* C15: a successful mint appends the new identifier at the end of the
\* owner's sequence: the sequence before is a prefix of the sequence after
\* and the new identifier is the last element.
C15_MintAppendsLast ==
  MintOk =>
    LET before == last.pre.owned[M.owner]
        after == KittiesOwned[M.owner]
    IN  /\ Len(after) = Len(before) + 1
        /\ \A i \in 1..Len(before) : after[i] = before[i]
        /\ after[Len(after)] = M.res.val

\* A successful mint for an owner who already held a different identifier.
C15_Witness ==
  /\ MintOk
  /\ Len(last.pre.owned[M.owner]) >= 1
  /\ last.pre.owned[M.owner][1] # M.res.val

\* C16: with the counter at u64::MAX and the owner's sequence full, mint
\* returns KittyCntOverflow, not ExceedMaxKittyOwned, and changes nothing.
C16_OverflowBeforeCapacity ==
  (/\ LastMinted
   /\ last.pre.cnt = U64Max
   /\ Len(last.pre.owned[M.owner]) = MaxKittyOwned)
  => /\ M.res = Err("KittyCntOverflow")
     /\ Storage = last.pre

\* A mint was attempted for a full owner with the counter at u64::MAX.
C16_Witness ==
  /\ LastMinted
  /\ last.pre.cnt = U64Max
  /\ Len(last.pre.owned[M.owner]) = MaxKittyOwned

RECURSIVE SumOwned(_, _)
\* The sum of the lengths of the sequences of the accounts in S.
SumOwned(owned, S) ==
  IF S = {} THEN 0
  ELSE LET a == CHOOSE x \in S : TRUE
       IN  Len(owned[a]) + SumOwned(owned, S \ {a})

\* C17: the lengths of all owners' KittiesOwned sequences add up to
\* KittyCnt.
C17_IndexEntriesEqualCounter ==
  KittyCnt = U64Of(SumOwned(KittiesOwned, Accounts))

\* Every account holds an identifier and one account holds several.
C17_Witness ==
  /\ \A a \in Accounts : Len(KittiesOwned[a]) >= 1
  /\ \E a \in Accounts : Len(KittiesOwned[a]) >= 2
  /\ MintFailed("ExceedMaxKittyOwned")

\* C18: every stored asset's identifier occurs in its owner's sequence and
\* in no other owner's sequence.
C18_StoredAreIndexedByOwner ==
  \A id \in DOMAIN Kitties :
    /\ id \in Range(KittiesOwned[Kitties[id].owner])
    /\ \A a \in Accounts \ {Kitties[id].owner} : id \notin Range(KittiesOwned[a])

\* Several assets are stored, with more than one owner among them.
C18_Witness ==
  /\ Cardinality(DOMAIN Kitties) >= 3
  /\ \E id1, id2 \in DOMAIN Kitties : Kitties[id1].owner # Kitties[id2].owner

\* C19: a successful mint for an owner leaves every other owner's sequence
\* and every stored record other than the one under the returned identifier
\* unchanged; breed_dna and is_kitty_owner leave the counter, the store and
\* every sequence unchanged.
C19_FrameOfCalls ==
  /\ MintOk =>
       /\ \A a \in Accounts \ {M.owner} : KittiesOwned[a] = last.pre.owned[a]
       /\ \A id \in DOMAIN last.pre.kitties \ {M.res.val} :
            id \in DOMAIN Kitties /\ Kitties[id] = last.pre.kitties[id]
  /\ (LastOp("breed_dna") \/ LastOp("is_kitty_owner")) => Storage = last.pre

\* A successful mint was made while another owner held identifiers and
\* another record was stored.
C19_Witness ==
  /\ MintOk
  /\ \E a \in Accounts \ {M.owner} : Len(last.pre.owned[a]) >= 1
  /\ DOMAIN last.pre.kitties \ {M.res.val} # {}

\* C20: at every bit position where the two parents' DNA agree the child
\* of breed_dna has that bit, and breeding a kitty with itself returns its
\* DNA.
C20_ChildBoundedByParents ==
  (LastOp("breed_dna") /\ IsOk(last.res)) =>
    LET dna1 == Kitties[last.args[1]].dna
        dna2 == Kitties[last.args[2]].dna
        child == last.res.val
    IN  /\ \A i \in 1..DnaLen : \A k \in 0..7 :
             /\ Bit(dna1[i], k) = Bit(dna2[i], k) => Bit(child[i], k) = Bit(dna1[i], k)
             /\ Bit(dna1[i], k) * Bit(dna2[i], k) <= Bit(child[i], k)
             /\ Bit(child[i], k) <= Bit(dna1[i], k) + Bit(dna2[i], k)
        /\ last.args[1] = last.args[2] => child = dna1

\* breed_dna bred a stored kitty with itself.
C20_Witness ==
  /\ LastOp("breed_dna")
  /\ IsOk(last.res)
  /\ last.args[1] = last.args[2]

====
